---- MODULE Spec2Model ----
(***************************************************************************)
(* A model of playhouse/sqlite_kv.py: KeyStore, a mapping interface over   *)
(* the two-column table KV (key primary key, pickled value) of one shared  *)
(* in-memory Sqlite database.                                              *)
(*                                                                         *)
(* Keys are the integers 1..NumKeys standing for NumKeys distinct key      *)
(* strings in ascending lexicographic order ('a' < 'b' < 'c' ...).         *)
(* Values are the integers 1..NumValues; None is 0; Sentinel is -1.        *)
(* The table is the set of its rows.  Every store is used by one thread;   *)
(* a thread runs one operation at a time.  Every operation but pop is one  *)
(* statement, executed in one step; pop is the statements of lines 115-124 *)
(* inside a transaction of the database.                                   *)
(***************************************************************************)
EXTENDS Integers, Sequences, FiniteSets, TLC

NumKeys == 2
NumValues == 2
NumStores == 2

Keys == 1..NumKeys
Values == 1..NumValues
Stores == 1..NumStores

None == 0
Sentinel == 0 - 1
NoTxn == 0

GetDefaults == {None, 1}
PopDefaults == {Sentinel, 1}

VARIABLES table, ordered, txn, pc, popArg, popRes, popPre, popRead, popDel, last

vars == <<table, ordered, txn, pc, popArg, popRes, popPre, popRead, popDel, last>>

-----------------------------------------------------------------------------
(* Access expressions: a plain key, or a Leaf (an expression over the key  *)
(* column); the Leaf modelled is the membership test  key << (k1, k2, ..), *)
(* which for one key is the equality test  key == k.                       *)

Literal(k) == [tag |-> "key", key |-> k, keys |-> {}]
Predicate(S) == [tag |-> "leaf", key |-> 0, keys |-> S]

Exprs == {Literal(k) : k \in Keys} \cup {Predicate(S) : S \in SUBSET Keys}

isLeaf(expr) == expr.tag = "leaf"

(* pickle.dumps / pickle.loads: the stored bytes are not the value.        *)
dumps(v) == <<"pickle", v>>
loads(b) == b[2]

Row(k, b) == [key |-> k, value |-> b]

(* convert_expr: <<set of keys the WHERE clause matches, is_single>>.      *)
convert_expr_AlwaysSingle(expr) ==
    <<IF ~ isLeaf(expr) THEN {expr.key} ELSE expr.keys, TRUE>>
convert_expr(expr) ==
    IF ~ isLeaf(expr) THEN <<{expr.key}, TRUE>> ELSE <<expr.keys, FALSE>>

(* SELECT ... WHERE converted *)
where(tbl, converted) == {r \in tbl : r.key \in converted}

RECURSIVE Perms(_)
Perms(S) ==
    IF S = {} THEN {<<>>}
    ELSE UNION {{<<x>> \o s : s \in Perms(S \ {x})} : x \in S}

KeyOrdered(s) == \A i, j \in 1..Len(s) : i < j => s[i].key <= s[j].key

(* query: the row sequences a SELECT over the rows S may produce: sorted   *)
(* by key when the store is ordered, in the engine's order otherwise.      *)
query_NoOrderBy(ord, S) == Perms(S)
query(ord, S) == {s \in Perms(S) : ord => KeyOrdered(s)}

Range(s) == {s[i] : i \in 1..Len(s)}

Result(outcome, result) == [outcome |-> outcome, result |-> result]

(* __getitem__ on the rows its query produced.                             *)
__getitem___NoKeyError(rows, expr) ==
    LET is_single == convert_expr(expr)[2]
        result == [i \in 1..Len(rows) |-> loads(rows[i].value)]
    IN  IF Len(result) = 0 /\ is_single THEN Result("value", <<None>>)
        ELSE IF is_single THEN Result("value", <<result[1]>>)
        ELSE Result("seq", result)
__getitem___ShapeByCount(rows, expr) ==
    LET is_single == convert_expr(expr)[2]
        result == [i \in 1..Len(rows) |-> loads(rows[i].value)]
    IN  IF Len(result) = 0 /\ is_single THEN Result("KeyError", <<>>)
        ELSE IF Len(result) = 1 THEN Result("value", <<result[1]>>)
        ELSE Result("seq", result)
__getitem__(rows, expr) ==
    LET is_single == convert_expr(expr)[2]
        result == [i \in 1..Len(rows) |-> loads(rows[i].value)]
    IN  IF Len(result) = 0 /\ is_single THEN Result("KeyError", <<>>)
        ELSE IF is_single THEN Result("value", <<result[1]>>)
        ELSE Result("seq", result)

(* get: __getitem__ with KeyError turned into the default.                 *)
get(rows, expr, default) ==
    LET r == __getitem__(rows, expr)
    IN  IF r.outcome = "KeyError" THEN Result("default", <<default>>) ELSE r

(* INSERT OR REPLACE INTO kv (key, value) VALUES (?, ?) *)
_upsert_InsertOnly(tbl, key, value) == tbl \cup {Row(key, value)}
_upsert_InsertOrIgnore(tbl, key, value) ==
    IF \E r \in tbl : r.key = key THEN tbl ELSE tbl \cup {Row(key, value)}
_upsert_NotCommitted(tbl, key, value) == tbl
_upsert(tbl, key, value) ==
    {r \in tbl : r.key # key} \cup {Row(key, value)}

(* __setitem__: UPDATE ... WHERE expr for a Leaf, _upsert otherwise.       *)
__setitem___UpsertsEach(tbl, expr, value) ==
    LET pickled_value == dumps(value)
    IN  IF isLeaf(expr)
        THEN {r \in tbl : r.key \notin expr.keys}
                 \cup {Row(k, pickled_value) : k \in expr.keys}
        ELSE _upsert(tbl, expr.key, pickled_value)
__setitem__(tbl, expr, value) ==
    LET pickled_value == dumps(value)
    IN  IF isLeaf(expr)
        THEN {IF r.key \in expr.keys THEN Row(r.key, pickled_value) ELSE r :
                 r \in tbl}
        ELSE _upsert(tbl, expr.key, pickled_value)

(* __delitem__: DELETE ... WHERE converted *)
__delitem___NoWhere(tbl, expr) == {}
__delitem__(tbl, expr) ==
    LET converted == convert_expr(expr)[1]
    IN  {r \in tbl : r.key \notin converted}

-----------------------------------------------------------------------------
NoArg == [expr |-> Predicate({}), default |-> Sentinel]
NoRes == Result("none", <<>>)

Done(p, op, expr, default, res) ==
    [proc |-> p, op |-> op, expr |-> expr, default |-> default,
     outcome |-> res.outcome, result |-> res.result]

(* KeyStore.__init__ for every store on the shared, created-if-absent      *)
(* table of the one database key_value_db: store 1 is KeyStore(ordered=    *)
(* True), the others are KeyStore().                                       *)
Init ==
    /\ table = {}
    /\ ordered = [p \in Stores |-> p = 1]
    /\ txn = NoTxn
    /\ pc = [p \in Stores |-> "idle"]
    /\ popArg = [p \in Stores |-> NoArg]
    /\ popRes = [p \in Stores |-> NoRes]
    /\ popPre = [p \in Stores |-> {}]
    /\ popRead = [p \in Stores |-> <<>>]
    /\ popDel = [p \in Stores |-> {}]
    /\ last = Done(0, "init", Predicate({}), Sentinel, NoRes)

(* The transaction of the database (Database.transaction, entered on line  *)
(* 115) is the storage binding's "run a block of statements as one atomic  *)
(* transaction": one thread holds it from its begin to its commit or       *)
(* rollback, and no statement of another thread runs meanwhile.            *)
TxnFree == txn = NoTxn
TxnEnter(p) == txn' = p
TxnExit(p) == txn' = IF txn = p THEN NoTxn ELSE txn

(* A statement outside pop runs when its thread is idle and no             *)
(* transaction is open on the database.                                    *)
CanRun(p) == pc[p] = "idle" /\ TxnFree

Contains_NoExists(p, k) ==
    /\ CanRun(p)
    /\ last' = Done(p, "contains", Literal(k), Sentinel,
                    Result("bool", <<TRUE>>))
    /\ UNCHANGED <<table, ordered, txn, pc, popArg, popRes, popPre, popRead,
                   popDel>>

Contains(p, k) ==
    /\ CanRun(p)
    /\ last' = Done(p, "contains", Literal(k), Sentinel,
                    Result("bool", <<where(table, {k}) # {}>>))
    /\ UNCHANGED <<table, ordered, txn, pc, popArg, popRes, popPre, popRead, popDel>>

Length(p) ==
    /\ CanRun(p)
    /\ last' = Done(p, "len", Predicate(Keys), Sentinel,
                    Result("int", <<Cardinality(table)>>))
    /\ UNCHANGED <<table, ordered, txn, pc, popArg, popRes, popPre, popRead, popDel>>

GetItem(p, expr) ==
    /\ CanRun(p)
    /\ \E rows \in query(ordered[p], where(table, convert_expr(expr)[1])) :
          last' = Done(p, "getitem", expr, Sentinel, __getitem__(rows, expr))
    /\ UNCHANGED <<table, ordered, txn, pc, popArg, popRes, popPre, popRead, popDel>>

Get(p, expr, default) ==
    /\ CanRun(p)
    /\ \E rows \in query(ordered[p], where(table, convert_expr(expr)[1])) :
          last' = Done(p, "get", expr, default, get(rows, expr, default))
    /\ UNCHANGED <<table, ordered, txn, pc, popArg, popRes, popPre, popRead, popDel>>

SetItem(p, expr, value) ==
    /\ CanRun(p)
    /\ table' = __setitem__(table, expr, value)
    /\ last' = Done(p, "setitem", expr, value, NoRes)
    /\ UNCHANGED <<ordered, txn, pc, popArg, popRes, popPre, popRead, popDel>>

DelItem(p, expr) ==
    /\ CanRun(p)
    /\ table' = __delitem__(table, expr)
    /\ last' = Done(p, "delitem", expr, Sentinel, NoRes)
    /\ UNCHANGED <<ordered, txn, pc, popArg, popRes, popPre, popRead, popDel>>

Clear_DeletesNothing(p) ==
    /\ CanRun(p)
    /\ last' = Done(p, "clear", Predicate(Keys), Sentinel, NoRes)
    /\ UNCHANGED <<table, ordered, txn, pc, popArg, popRes, popPre, popRead,
                   popDel>>

Clear(p) ==
    /\ CanRun(p)
    /\ table' = {}
    /\ last' = Done(p, "clear", Predicate(Keys), Sentinel, NoRes)
    /\ UNCHANGED <<ordered, txn, pc, popArg, popRes, popPre, popRead, popDel>>

(* __iter__ / items: every row as (key, loads(value)).                     *)
Iter_ValueFirst(p, op) ==
    /\ CanRun(p)
    /\ \E rows \in query(ordered[p], table) :
          last' = Done(p, op, Predicate(Keys), Sentinel,
                       Result("seq", [i \in 1..Len(rows) |->
                                  <<loads(rows[i].value), rows[i].key>>]))
    /\ UNCHANGED <<table, ordered, txn, pc, popArg, popRes, popPre, popRead,
                   popDel>>

Iter(p, op) ==
    /\ CanRun(p)
    /\ \E rows \in query(ordered[p], table) :
          last' = Done(p, op, Predicate(Keys), Sentinel,
                       Result("seq", [i \in 1..Len(rows) |->
                                  <<rows[i].key, loads(rows[i].value)>>]))
    /\ UNCHANGED <<table, ordered, txn, pc, popArg, popRes, popPre, popRead, popDel>>

keys(p) ==
    /\ CanRun(p)
    /\ \E rows \in query(ordered[p], table) :
          last' = Done(p, "keys", Predicate(Keys), Sentinel,
                       Result("seq", [i \in 1..Len(rows) |-> rows[i].key]))
    /\ UNCHANGED <<table, ordered, txn, pc, popArg, popRes, popPre, popRead, popDel>>

values(p) ==
    /\ CanRun(p)
    /\ \E rows \in query(ordered[p], table) :
          last' = Done(p, "values", Predicate(Keys), Sentinel,
                       Result("seq", [i \in 1..Len(rows) |->
                                  loads(rows[i].value)]))
    /\ UNCHANGED <<table, ordered, txn, pc, popArg, popRes, popPre, popRead, popDel>>

-----------------------------------------------------------------------------
(* pop, lines 114-124.                                                     *)

Step(p, op, res) == Done(p, op, popArg[p].expr, popArg[p].default, res)

(* the call and line 115: with self._db.transaction().  popPre is the      *)
(* table at the call.                                                      *)
PopBegin_NoTransaction(p, k, default) ==
    /\ pc[p] = "idle"
    /\ pc' = [pc EXCEPT ![p] = "pop_read"]
    /\ popArg' = [popArg EXCEPT ![p] = [expr |-> k, default |-> default]]
    /\ popPre' = [popPre EXCEPT ![p] = table]
    /\ last' = Done(p, "pop_begin", k, default, NoRes)
    /\ UNCHANGED <<table, ordered, txn, popRes, popRead, popDel>>

PopBegin(p, k, default) ==
    /\ pc[p] = "idle"
    /\ TxnFree
    /\ TxnEnter(p)
    /\ pc' = [pc EXCEPT ![p] = "pop_read"]
    /\ popArg' = [popArg EXCEPT ![p] = [expr |-> k, default |-> default]]
    /\ popPre' = [popPre EXCEPT ![p] = table]
    /\ last' = Done(p, "pop_begin", k, default, NoRes)
    /\ UNCHANGED <<table, ordered, popRes, popRead, popDel>>

(* lines 119-122: on KeyError, raise when no default was given, else       *)
(* return the default.                                                     *)
pop_KeyError_IgnoresDefault(default, res) == res
pop_KeyError(default, res) ==
    IF default = Sentinel THEN res ELSE Result("default", <<default>>)

(* lines 116-122: res = self[k]; on KeyError raise, or return the default. *)
PopRead(p) ==
    /\ pc[p] = "pop_read"
    /\ LET k == popArg[p].expr
           default == popArg[p].default
       IN  \E rows \in query(ordered[p], where(table, convert_expr(k)[1])) :
             LET res == __getitem__(rows, k)
             IN  /\ popRead' = [popRead EXCEPT ![p] = rows]
                 /\ IF res.outcome = "KeyError"
                    THEN /\ popRes' = [popRes EXCEPT ![p] =
                                pop_KeyError(default, res)]
                         /\ pc' = [pc EXCEPT ![p] = "pop_end"]
                    ELSE /\ popRes' = [popRes EXCEPT ![p] = res]
                         /\ pc' = [pc EXCEPT ![p] = "pop_del"]
    /\ last' = Step(p, "pop_read", popRes'[p])
    /\ UNCHANGED <<table, ordered, txn, popArg, popPre, popDel>>

(* line 123: del(self[expr]), expr the converted expression.               *)
PopDelete_NoDelete(p) ==
    /\ pc[p] = "pop_del"
    /\ pc' = [pc EXCEPT ![p] = "pop_end"]
    /\ last' = Step(p, "pop_del", popRes[p])
    /\ UNCHANGED <<table, ordered, txn, popArg, popRes, popPre, popRead,
                   popDel>>

PopDelete(p) ==
    /\ pc[p] = "pop_del"
    /\ LET expr == Predicate(convert_expr(popArg[p].expr)[1])
       IN  /\ table' = __delitem__(table, expr)
           /\ popDel' = [popDel EXCEPT ![p] = table \ table']
    /\ pc' = [pc EXCEPT ![p] = "pop_end"]
    /\ last' = Step(p, "pop_del", popRes[p])
    /\ UNCHANGED <<ordered, txn, popArg, popRes, popPre, popRead>>

(* leaving the with block (commit, or rollback on KeyError) and returning  *)
(* res, returning the default, or raising.                                 *)
PopEnd_LeavesTransactionOpen(p) ==
    /\ pc[p] = "pop_end"
    /\ IF popRes[p].outcome \in {"KeyError", "default"}
       THEN txn' = txn
       ELSE TxnExit(p)
    /\ pc' = [pc EXCEPT ![p] = "idle"]
    /\ last' = Done(p, "pop", popArg[p].expr, popArg[p].default, popRes[p])
    /\ popArg' = [popArg EXCEPT ![p] = NoArg]
    /\ popRes' = [popRes EXCEPT ![p] = NoRes]
    /\ popPre' = [popPre EXCEPT ![p] = {}]
    /\ popRead' = [popRead EXCEPT ![p] = <<>>]
    /\ popDel' = [popDel EXCEPT ![p] = {}]
    /\ UNCHANGED <<table, ordered>>

PopEnd(p) ==
    /\ pc[p] = "pop_end"
    /\ TxnExit(p)
    /\ pc' = [pc EXCEPT ![p] = "idle"]
    /\ last' = Done(p, "pop", popArg[p].expr, popArg[p].default, popRes[p])
    /\ popArg' = [popArg EXCEPT ![p] = NoArg]
    /\ popRes' = [popRes EXCEPT ![p] = NoRes]
    /\ popPre' = [popPre EXCEPT ![p] = {}]
    /\ popRead' = [popRead EXCEPT ![p] = <<>>]
    /\ popDel' = [popDel EXCEPT ![p] = {}]
    /\ UNCHANGED <<table, ordered>>

Next ==
    \E p \in Stores :
        \/ \E k \in Keys : Contains(p, k)
        \/ Length(p)
        \/ \E expr \in Exprs : GetItem(p, expr)
        \/ \E expr \in Exprs, d \in GetDefaults : Get(p, expr, d)
        \/ \E expr \in Exprs, v \in Values : SetItem(p, expr, v)
        \/ \E expr \in Exprs : DelItem(p, expr)
        \/ \E op \in {"iter", "items"} : Iter(p, op)
        \/ keys(p)
        \/ values(p)
        \/ \E k \in Exprs, d \in PopDefaults : PopBegin(p, k, d)
        \/ PopRead(p)
        \/ PopDelete(p)
        \/ PopEnd(p)
        \/ Clear(p)

Spec == Init /\ [][Next]_vars

-----------------------------------------------------------------------------
(* Properties.                                                             *)

TypeOK ==
    /\ \A r \in table : r.key \in Keys /\ loads(r.value) \in Values
    /\ txn \in {NoTxn} \cup Stores

HasRow(tbl, k) == \E r \in tbl : r.key = k
ValueOf(tbl, k) == loads((CHOOSE r \in tbl : r.key = k).value)
Decoded(rows) == [i \in 1..Len(rows) |-> loads(rows[i].value)]

(* store p is inside pop(k) for the plain key k and its read returned the  *)
(* value of k.                                                             *)
PopHolds(p, k) ==
    /\ pc[p] \in {"pop_del", "pop_end"}
    /\ popArg[p].expr = Literal(k)
    /\ popRes[p].outcome = "value"

C3_MissingKey ==
    [][\A k \in Keys :
          (~ HasRow(table, k) /\ last'.expr = Literal(k)) =>
              /\ last'.op = "getitem" =>
                    /\ last'.outcome = "KeyError"
                    /\ table' = table
              /\ last'.op = "get" =>
                    /\ last'.outcome = "default"
                    /\ last'.result = <<last'.default>>
                    /\ table' = table]_vars

(* a get with a default of a key without a row, in a table that has rows.  *)
C3_Witness ==
    /\ last.op = "get"
    /\ ~ isLeaf(last.expr)
    /\ ~ HasRow(table, last.expr.key)
    /\ last.outcome = "default"
    /\ last.default # None
    /\ table # {}

(* C4: an access by a Leaf that matches no row never raises KeyError:      *)
(* __getitem__, get (whatever its default) and pop (with or without a      *)
(* default) return the empty list, and the table is as it was.             *)
C4_EmptyMatchIsEmptyList ==
    [][\A S \in SUBSET Keys :
          (last'.expr = Predicate(S) /\ where(table, S) = {}) =>
              /\ last'.op \in {"getitem", "get"} =>
                    /\ last'.outcome = "seq"
                    /\ last'.result = <<>>
                    /\ table' = table
              /\ (last'.op = "pop" /\ popRead[last'.proc] = <<>>) =>
                    /\ last'.outcome = "seq"
                    /\ last'.result = <<>>
                    /\ table' = popPre[last'.proc]]_vars

(* a pop with a default, by a Leaf over some keys, none of which has a     *)
(* row, of a table that has rows.                                          *)
C4_Witness ==
    /\ last.op = "pop"
    /\ isLeaf(last.expr)
    /\ last.expr.keys # {}
    /\ last.default # Sentinel
    /\ last.outcome = "seq"
    /\ last.result = <<>>
    /\ table # {}

KeysOf(tbl) == {r.key : r \in tbl}

(* C5: an assignment by a Leaf gives the value to every row that matches,  *)
(* creates no row (the keys of the table, and so its size, stay) and       *)
(* leaves every other row as it was.                                       *)
C5_BulkAssignmentCreatesNoRow ==
    [][(last'.op = "setitem" /\ isLeaf(last'.expr)) =>
          /\ KeysOf(table') = KeysOf(table)
          /\ Cardinality(table') = Cardinality(table)
          /\ \A r \in table :
                IF r.key \in last'.expr.keys
                THEN Row(r.key, dumps(last'.default)) \in table'
                ELSE r \in table']_vars

(* after an assignment over keys of which one has a row, now with the      *)
(* value, and another has none.                                            *)
C5_Witness ==
    /\ last.op = "setitem"
    /\ isLeaf(last.expr)
    /\ \E a, c \in last.expr.keys :
          /\ Row(a, dumps(last.default)) \in table
          /\ ~ HasRow(table, c)

UniqueKeys(tbl) == \A r1, r2 \in tbl : r1.key = r2.key => r1 = r2

(* C6: the table never holds two rows of one key; an assignment to a plain *)
(* key that has a row replaces its value and keeps the size, and to a key  *)
(* without a row adds one row; every other row stays.                      *)
C6_OneRowPerKey ==
    /\ [] UniqueKeys(table)
    /\ [][(last'.op = "setitem" /\ ~ isLeaf(last'.expr)) =>
             LET k == last'.expr.key
             IN  /\ ValueOf(table', k) = last'.default
                 /\ Cardinality(table') =
                       Cardinality(table) + (IF HasRow(table, k) THEN 0 ELSE 1)
                 /\ \A r \in table : r.key # k => r \in table']_vars

(* every key has a row and the last operation, by the second store,        *)
(* assigned to a plain key.                                                *)
C6_Witness ==
    /\ last.op = "setitem"
    /\ ~ isLeaf(last.expr)
    /\ last.proc = 2
    /\ KeysOf(table) = Keys
    /\ \E r \in table : loads(r.value) # last.default

RECURSIVE SortedKeys(_)
SortedKeys(S) ==
    IF S = {} THEN <<>>
    ELSE LET m == CHOOSE x \in S : \A y \in S : x <= y
         IN  <<m>> \o SortedKeys(S \ {m})

ValuesByKey(tbl) ==
    LET sk == SortedKeys(KeysOf(tbl))
    IN  [i \in 1..Len(sk) |-> ValueOf(tbl, sk[i])]

ItemsByKey(tbl) ==
    LET sk == SortedKeys(KeysOf(tbl))
    IN  [i \in 1..Len(sk) |-> <<sk[i], ValueOf(tbl, sk[i])>>]

(* C7: what a store with ordered=True reads of several rows is in          *)
(* ascending order of the keys: iteration and items, keys, values, an      *)
(* access by a Leaf and the values a pop by a Leaf returns.                *)
C7_OrderedReads ==
    /\ (last.proc \in Stores /\ ordered[last.proc]) =>
          /\ last.op \in {"iter", "items"} => last.result = ItemsByKey(table)
          /\ last.op = "keys" => last.result = SortedKeys(KeysOf(table))
          /\ last.op = "values" => last.result = ValuesByKey(table)
          /\ (last.op \in {"getitem", "get"} /\ isLeaf(last.expr)) =>
                last.result = ValuesByKey(where(table, last.expr.keys))
    /\ \A p \in Stores :
          (ordered[p] /\ pc[p] \in {"pop_del", "pop_end"}
                /\ isLeaf(popArg[p].expr)) =>
             popRes[p].result =
                 ValuesByKey(where(popPre[p], popArg[p].expr.keys))

(* the ordered store read the values of a table in which every key has a   *)
(* row and the values differ.                                              *)
C7_Witness ==
    /\ last.proc \in Stores
    /\ ordered[last.proc]
    /\ last.op = "values"
    /\ Len(last.result) = NumKeys
    /\ \E i, j \in 1..Len(last.result) : last.result[i] # last.result[j]

(* C8: pop of a plain key that has a row returns the value the key held    *)
(* at the call and removes that row and no other (the size goes down by    *)
(* one); returning changes no row, and a __getitem__ of the key right      *)
(* after the pop raises KeyError.                                          *)
C8_PopReturnsPriorValue ==
    /\ [](\A p \in Stores : \A k \in Keys :
             (pc[p] = "pop_end" /\ popArg[p].expr = Literal(k)
                   /\ HasRow(popPre[p], k)) =>
                /\ popRes[p] = Result("value", <<ValueOf(popPre[p], k)>>)
                /\ table = {r \in popPre[p] : r.key # k}
                /\ Cardinality(table) = Cardinality(popPre[p]) - 1)
    /\ [][/\ last'.op = "pop" => table' = table
          /\ (last.op = "pop" /\ last.outcome = "value"
                 /\ last'.op = "getitem" /\ last'.expr = last.expr) =>
                last'.outcome = "KeyError"]_vars

(* a pop of a plain key is about to return its value, another row staying. *)
C8_Witness ==
    \E p \in Stores : \E k \in Keys :
        /\ pc[p] = "pop_end"
        /\ popArg[p].expr = Literal(k)
        /\ HasRow(popPre[p], k)
        /\ table # {}

(* C9: pop of a plain key that has no row raises KeyError when it has no   *)
(* default and returns its default when it has one, and the table is       *)
(* after the call what it was at the call.                                 *)
C9_PopMissingKey ==
    [][\A k \in Keys :
          (last'.op = "pop" /\ last'.expr = Literal(k)
                /\ ~ HasRow(popPre[last'.proc], k)) =>
             /\ last'.default = Sentinel =>
                   last'.outcome = "KeyError"
             /\ last'.default # Sentinel =>
                   /\ last'.outcome = "default"
                   /\ last'.result = <<last'.default>>
             /\ table' = popPre[last'.proc]]_vars

(* a pop with a default returned it, the table having rows.                *)
C9_Witness ==
    /\ last.op = "pop"
    /\ ~ isLeaf(last.expr)
    /\ last.outcome = "default"
    /\ last.result = <<last.default>>
    /\ table # {}

(* C10: a delete removes the rows that match (the row of the plain key,    *)
(* the rows of the keys of the Leaf) and no other row; when nothing        *)
(* matches it raises nothing and the table stays.                          *)
C10_DeleteRemovesMatching ==
    [][last'.op = "delitem" =>
          LET S == IF isLeaf(last'.expr) THEN last'.expr.keys
                   ELSE {last'.expr.key}
          IN  /\ \A r \in table : r \in table' <=> r.key \notin S
              /\ table' \subseteq table
              /\ last'.outcome = "none"
              /\ (\A k \in S : ~ HasRow(table, k)) => table' = table]_vars

(* a delete by a Leaf over some keys left a row of another key.            *)
C10_Witness ==
    /\ last.op = "delitem"
    /\ isLeaf(last.expr)
    /\ last.expr.keys # {}
    /\ table # {}

(* a step record of an assignment to, or a delete of, a plain key, and the *)
(* rows of that key after it.                                              *)
PointMutation(l) == l.op \in {"setitem", "delitem"} /\ ~ isLeaf(l.expr)
RowsAfter(l) ==
    IF l.op = "setitem" THEN {Row(l.expr.key, dumps(l.default))} ELSE {}

(* C11: when two stores in turn assign to, or assign to and delete, the    *)
(* same plain key, the key has afterwards what one of the two orders of    *)
(* the two statements leaves: no row, or one row with a value written;     *)
(* never two rows, never another value; rows of other keys stay.           *)
C11_PointMutationsSerialize ==
    [][(/\ PointMutation(last) /\ PointMutation(last')
        /\ last'.expr = last.expr
        /\ last'.proc # last.proc
        /\ "setitem" \in {last.op, last'.op}) =>
          LET k == last'.expr.key
          IN  /\ where(table', {k}) \in {RowsAfter(last), RowsAfter(last')}
              /\ Cardinality(where(table', {k})) <= 1
              /\ \A r \in where(table', {k}) :
                    loads(r.value) \in {last.default, last'.default} \ {Sentinel}
              /\ \A r \in table : r.key # k => r \in table'
              /\ \A r \in table' : r.key # k => r \in table]_vars

(* the second store assigned to a plain key, which holds that value, and   *)
(* the other key holds the other value.                                    *)
C11_Witness ==
    /\ last.op = "setitem"
    /\ ~ isLeaf(last.expr)
    /\ last.proc = 2
    /\ where(table, {last.expr.key}) = RowsAfter(last)
    /\ \E r \in table : r.key # last.expr.key /\ loads(r.value) # last.default

(* C12: the stores share one table: a __getitem__ of a plain key through   *)
(* any store returns the value the table holds for it, and right after an  *)
(* assignment to the key through another store that is the value assigned. *)
C12_SharedTable ==
    /\ [](\A k \in Keys :
             (last.op = "getitem" /\ last.expr = Literal(k)
                   /\ HasRow(table, k)) =>
                /\ last.outcome = "value"
                /\ last.result = <<ValueOf(table, k)>>)
    /\ [][(/\ last.op = "setitem" /\ ~ isLeaf(last.expr)
           /\ last'.op = "getitem" /\ last'.expr = last.expr
           /\ last'.proc # last.proc) =>
             /\ last'.outcome = "value"
             /\ last'.result = <<last.default>>]_vars

(* the ordered store read the value of a key, every key having a row.      *)
C12_Witness ==
    /\ last.op = "getitem"
    /\ ~ isLeaf(last.expr)
    /\ last.proc = 1
    /\ last.outcome = "value"
    /\ KeysOf(table) = Keys

(* C13: right after an assignment of v to a plain key a __getitem__ of the *)
(* key returns v, and the same assignment once more leaves the table, and  *)
(* so its size, as it is.                                                  *)
C13_UpsertIdempotent ==
    [][(last.op = "setitem" /\ ~ isLeaf(last.expr)
           /\ last'.expr = last.expr) =>
          /\ last'.op = "getitem" =>
                /\ last'.outcome = "value"
                /\ last'.result = <<last.default>>
          /\ (last'.op = "setitem" /\ last'.default = last.default) =>
                /\ table' = table
                /\ Cardinality(table') = Cardinality(table)
          /\ last'.op = "setitem" =>
                ValueOf(table', last'.expr.key) = last'.default]_vars

(* the first store assigned to a plain key the value another key holds.    *)
C13_Witness ==
    /\ last.op = "setitem"
    /\ ~ isLeaf(last.expr)
    /\ last.proc = 1
    /\ Cardinality(table) = NumKeys
    /\ \A r \in table : loads(r.value) = last.default

(* C14: clear leaves no row, whatever the table held: right after it the   *)
(* size is 0, no key is contained and a __getitem__ of any plain key       *)
(* raises KeyError.                                                        *)
C14_ClearRemovesEveryRow ==
    [][/\ last'.op = "clear" => table' = {}
       /\ last.op = "clear" =>
             /\ last'.op = "len" => last'.result = <<0>>
             /\ last'.op = "contains" => last'.result = <<FALSE>>
             /\ (last'.op = "getitem" /\ ~ isLeaf(last'.expr)) =>
                   last'.outcome = "KeyError"]_vars

(* the table is empty after a clear by the second store.                   *)
C14_Witness ==
    /\ last.op = "clear"
    /\ last.proc = 2
    /\ table = {}

(* C15: the shape of what a read returns follows the kind of the           *)
(* expression, not the number of rows: a plain key gives the bare value    *)
(* (or KeyError, or the default), a Leaf gives a list with one value for   *)
(* each matching row, also when one row matches or the Leaf names one key; *)
(* convert_expr gives the Leaf unchanged with is_single false, and for a   *)
(* plain key the equality with it and is_single true.                      *)
C15_ShapeFollowsExpression ==
    /\ last.op \in {"getitem", "get", "pop"} =>
          /\ isLeaf(last.expr) =>
                /\ last.outcome = "seq"
                /\ convert_expr(last.expr) = <<last.expr.keys, FALSE>>
          /\ ~ isLeaf(last.expr) =>
                /\ last.outcome \in {"value", "KeyError", "default"}
                /\ last.outcome = "value" => Len(last.result) = 1
                /\ convert_expr(last.expr) = <<{last.expr.key}, TRUE>>
    /\ (last.op \in {"getitem", "get"} /\ isLeaf(last.expr)) =>
          Len(last.result) = Cardinality(where(table, last.expr.keys))
    /\ \A p \in Stores :
          (pc[p] \in {"pop_del", "pop_end"} /\ isLeaf(popArg[p].expr)) =>
             /\ popRes[p].outcome = "seq"
             /\ Len(popRes[p].result) =
                   Cardinality(where(popPre[p], popArg[p].expr.keys))

(* a __getitem__ by a Leaf that names one key returned a list of one       *)
(* value.                                                                  *)
C15_Witness ==
    /\ last.op = "getitem"
    /\ isLeaf(last.expr)
    /\ Cardinality(last.expr.keys) = 1
    /\ last.outcome = "seq"
    /\ Len(last.result) = 1

(* C16: iteration and items give every row of the table once, as the pair  *)
(* of its key and its decoded value; keys gives the keys and values the    *)
(* decoded values of the same rows; each call reads the table as it is at  *)
(* that call.                                                              *)
C16_IterationYieldsEveryRow ==
    /\ last.op \in {"iter", "items"} =>
          /\ Len(last.result) = Cardinality(table)
          /\ Range(last.result) = {<<r.key, loads(r.value)>> : r \in table}
    /\ last.op = "keys" =>
          /\ Len(last.result) = Cardinality(table)
          /\ Range(last.result) = KeysOf(table)
    /\ last.op = "values" =>
          \E rows \in Perms(table) : last.result = Decoded(rows)

(* the store that is not ordered listed the items of a table in which      *)
(* every key has a row.                                                    *)
C16_Witness ==
    /\ last.op = "items"
    /\ last.proc = 2
    /\ Len(last.result) = NumKeys
    /\ \E i \in 1..Len(last.result) : last.result[i][1] # i

(* C17: a pop that has returned or raised has left its transaction: after  *)
(* it no transaction is open, a transaction is open only while the pop of  *)
(* its store is running, every store can run its next statement, and the   *)
(* rows a pop returned are gone from the table the stores share.           *)
C17_PopLeavesNoTransactionOpen ==
    /\ last.op = "pop" =>
          /\ txn = NoTxn
          /\ pc[last.proc] = "idle"
          /\ \A q \in Stores : pc[q] = "idle" => CanRun(q)
          /\ last.outcome \in {"value", "seq"} =>
                where(table, convert_expr(last.expr)[1]) = {}
    /\ txn # NoTxn => pc[txn] # "idle"
    /\ \A p \in Stores : pc[p] # "idle" => txn = p

(* a pop without a default has raised KeyError, the table having rows.     *)
C17_Witness ==
    /\ last.op = "pop"
    /\ ~ isLeaf(last.expr)
    /\ last.outcome = "KeyError"
    /\ txn = NoTxn
    /\ table # {}

(* C18: the reads agree: a key is contained exactly when it has a row,     *)
(* which is when __getitem__ returns a value for it; the size is the       *)
(* number of keys contained, and items gives as many pairs; an assignment  *)
(* to a plain key changes nothing of another key.                          *)
C18_ReadsAgree ==
    /\ [](/\ (last.op = "contains") =>
                last.result = <<HasRow(table, last.expr.key)>>
          /\ (last.op = "getitem" /\ ~ isLeaf(last.expr)) =>
                (last.outcome = "value" <=> HasRow(table, last.expr.key))
          /\ last.op = "len" =>
                last.result =
                    <<Cardinality({k \in Keys : HasRow(table, k)})>>
          /\ last.op = "items" =>
                Len(last.result) =
                    Cardinality({k \in Keys : HasRow(table, k)}))
    /\ [][(last'.op = "setitem" /\ ~ isLeaf(last'.expr)) =>
             \A k \in Keys \ {last'.expr.key} :
                 where(table', {k}) = where(table, {k})]_vars

(* a key was found not contained in a table that has rows.                 *)
C18_Witness ==
    /\ last.op = "contains"
    /\ last.result = <<FALSE>>
    /\ table # {}
====
